---- MODULE Spec2Model ----
(***************************************************************************)
(* Parallel-Pipelines: the three example programs main2 (3-stage chain),   *)
(* main3 (2 stages joined by a sum in the main thread) and main4 (diamond  *)
(* with two input streams).  Each program's parallel() is a loop of the    *)
(* main thread that launches one std::async task per stage, joins them     *)
(* with future::get, saves the buffers and prints one line.                *)
(***************************************************************************)
EXTENDS Naturals, Sequences, FiniteSets, TLC

VARIABLES
    prog,            \* which executable runs: "main2", "main3" or "main4"
    x_vec, z_vec,    \* the arguments of parallel()
    pc,              \* position of the main thread inside parallel() or serial()
    i,               \* the loop counter of parallel()
    x_i, z_i,        \* the round's external inputs
    F_buffer, G_buffer, F_G_sum_buffer,
    fut,             \* F_future, G_future, H_future: the shared states
    F_result, G_result, H_result, y,
    cout,            \* the lines parallel() has printed
    calls,           \* history: how often a task has called each stage function
    failed,          \* history: the (stage, round) pairs whose call threw
    reads,           \* history: how often each buffer was read
    written,         \* history: the values written to each buffer, in order
    accesses,        \* history: the element accesses x_vec[k], z_vec[k] made
    ser              \* the locals and the output of serial() of main4

vars == <<prog, x_vec, z_vec, pc, i, x_i, z_i, F_buffer, G_buffer,
          F_G_sum_buffer, fut, F_result, G_result, H_result, y, cout,
          calls, failed, reads, written, accesses, ser>>

inputs  == <<prog, x_vec, z_vec>>
round   == <<i, x_i, z_i>>
buffers == <<F_buffer, G_buffer, F_G_sum_buffer>>
tasks   == <<fut, calls, failed>>
results == <<F_result, G_result, H_result, y>>
log     == <<reads, written, accesses>>

(***************************************************************************)
(* Bounds of the model.                                                    *)
(***************************************************************************)
MaxLen == 3

XStrings == {"x_0", "--"}
ZStrings == {"z_0", "--"}

SeqsUpTo(S, n) == UNION {[1..k -> S] : k \in 0..n}

Stages == {"F", "G", "H"}

Buffers == {"F_buffer", "G_buffer", "F_G_sum_buffer"}

\* serial() of main4 before it is entered.
NoSerial == [i |-> 0, x_i |-> "", z_i |-> "", y_i |-> "", out |-> <<>>]

\* History: buffer b is read (copied into a task's argument or into the sum).
ReadBuffer(b) == reads' = [reads EXCEPT ![b] = @ + 1]

\* History: value v is assigned to buffer b.
WriteBuffer(b, v) == written' = [written EXCEPT ![b] = Append(@, v)]

\* What a read beyond the end of a vector may yield instead of an element.
Garbage == {"?"}

\* vec[k] (0-based) of std::vector, which checks no bounds: the element, or
\* beyond the end undefined behaviour, a crash or some garbage string.
ElementAt(vec, k) ==
    IF k < Len(vec) THEN {[ok |-> TRUE, val |-> vec[k + 1]]}
    ELSE {[ok |-> FALSE, val |-> ""]} \cup {[ok |-> TRUE, val |-> g] : g \in Garbage}

(***************************************************************************)
(* common.hpp                                                              *)
(***************************************************************************)
no_data == "--"

F(x) == "F(" \o x \o ")"

G(x) == "G(" \o x \o ")"

H(x) == "H(" \o x \o ")"

sum(x, yy) == x \o " + " \o yy

\* The stage function a task was launched with.
Apply(s, x) == CASE s = "F" -> F(x)
                 [] s = "G" -> G(x)
                 [] s = "H" -> H(x)

\* The outcomes of one call of a stage function: it returns its string, or
\* the string concatenation throws (std::bad_alloc, std::length_error).
Call(s, x) == {[ok |-> TRUE, val |-> Apply(s, x)], [ok |-> FALSE, val |-> ""]}

(***************************************************************************)
(* serial(): the value printed for index k (1-based here).                 *)
(***************************************************************************)
serial2(xs) == [k \in 1..Len(xs) |-> H(G(F(xs[k])))]

serial3(xs) == [k \in 1..Len(xs) |-> LET F_x_i == F(xs[k])
                                     IN  sum(F_x_i, G(F_x_i))]

serial4(xs, zs) == [k \in 1..Len(xs) |-> H(sum(F(xs[k]), G(zs[k])))]

(***************************************************************************)
(* std::async and std::future                                              *)
(***************************************************************************)
NoFuture == [state |-> "none", policy |-> "", arg |-> "", val |-> "", round |-> 0]

\* std::async(f, arg) with the default policy: the implementation chooses
\* between a new thread and deferred execution; the argument is copied.
LaunchPolicies == {"async", "deferred"}

Async(s, arg) ==
    \E p \in LaunchPolicies :
        fut' = [fut EXCEPT ![s] = [state |-> "pending", policy |-> p,
                                   arg |-> arg, val |-> "", round |-> i]]

Running(s) == fut[s].state = "pending" /\ fut[s].policy = "async"

Deferred(s) == fut[s].state = "pending" /\ fut[s].policy = "deferred"

\* Faulty variant: the task of F stores its result into F_buffer itself.
TaskRun_StoresBuffer(s) ==
    /\ pc # "terminated"
    /\ Running(s)
    /\ \E o \in Call(s, fut[s].arg) :
          /\ fut' = [fut EXCEPT ![s].state = IF o.ok THEN "value" ELSE "exception",
                                ![s].val = o.val]
          /\ failed' = IF o.ok THEN failed
                       ELSE failed \cup {[stage |-> s, round |-> fut[s].round]}
          /\ F_buffer' = IF s = "F" /\ o.ok THEN o.val ELSE F_buffer
    /\ calls' = [calls EXCEPT ![s] = @ + 1]
    /\ UNCHANGED <<inputs, pc, round, G_buffer, F_G_sum_buffer, results, cout, log, ser>>

\* The thread of an async task calls the stage function on its copy of the
\* argument and stores the value or the exception in the shared state.
TaskRun(s) ==
    /\ pc # "terminated"
    /\ Running(s)
    /\ \E o \in Call(s, fut[s].arg) :
          /\ fut' = [fut EXCEPT ![s].state = IF o.ok THEN "value" ELSE "exception",
                                ![s].val = o.val]
          /\ failed' = IF o.ok THEN failed
                       ELSE failed \cup {[stage |-> s, round |-> fut[s].round]}
    /\ calls' = [calls EXCEPT ![s] = @ + 1]
    /\ UNCHANGED <<inputs, pc, round, buffers, results, cout, log, ser>>

\* Faulty variant: get() does not wait for a task that is still running and yields
\* the value the shared state holds so far.
GetOutcomes_NoWait(s) ==
    IF fut[s].state \in {"value", "pending"} /\ ~Deferred(s)
    THEN {[ok |-> TRUE, val |-> fut[s].val]}
    ELSE IF fut[s].state = "exception" THEN {[ok |-> FALSE, val |-> ""]}
    ELSE IF Deferred(s) THEN Call(s, fut[s].arg)
    ELSE {}

\* Faulty variant: get() only waits and never runs a deferred task itself.
GetOutcomes_NoDeferredRun(s) ==
    IF fut[s].state = "value" THEN {[ok |-> TRUE, val |-> fut[s].val]}
    ELSE IF fut[s].state = "exception" THEN {[ok |-> FALSE, val |-> ""]}
    ELSE {}

\* What future::get() can yield: it blocks while the task runs, returns the
\* stored value, rethrows the stored exception, or runs a deferred task now.
GetOutcomes(s) ==
    IF fut[s].state = "value" THEN {[ok |-> TRUE, val |-> fut[s].val]}
    ELSE IF fut[s].state = "exception" THEN {[ok |-> FALSE, val |-> ""]}
    ELSE IF Deferred(s) THEN Call(s, fut[s].arg)
    ELSE {}

\* The effect of get() with outcome o on the shared state and the history.
Got(s, o) ==
    /\ fut' = [fut EXCEPT ![s] = NoFuture]
    /\ calls' = IF Deferred(s) THEN [calls EXCEPT ![s] = @ + 1] ELSE calls
    /\ failed' = IF Deferred(s) /\ ~o.ok
                 THEN failed \cup {[stage |-> s, round |-> fut[s].round]}
                 ELSE failed

(***************************************************************************)
(* main2.cpp: parallel()                                                   *)
(***************************************************************************)
M2_For ==
    /\ prog = "main2" /\ pc = "for"
    /\ pc' = IF i < Len(x_vec) + 2 THEN "x_i" ELSE "return"
    /\ UNCHANGED <<inputs, round, buffers, tasks, results, cout, log, ser>>


\* Faulty variant: beyond the end the last element is fed again.
M2_Input_RepeatLast ==
    /\ prog = "main2" /\ pc = "x_i"
    /\ x_i' = IF i < Len(x_vec) THEN x_vec[i + 1]
              ELSE IF Len(x_vec) > 0 THEN x_vec[Len(x_vec)] ELSE no_data
    /\ pc' = "asyncF"
    /\ accesses' = IF Len(x_vec) > 0
                   THEN accesses \cup {[fn |-> "parallel", vec |-> "x_vec",
                                        index |-> IF i < Len(x_vec) THEN i
                                                  ELSE Len(x_vec) - 1]}
                   ELSE accesses
    /\ UNCHANGED <<inputs, i, z_i, buffers, tasks, results, cout, reads, written, ser>>

M2_Input ==
    /\ prog = "main2" /\ pc = "x_i"
    /\ x_i' = IF i < Len(x_vec) THEN x_vec[i + 1] ELSE no_data
    /\ pc' = "asyncF"
    /\ accesses' = IF i < Len(x_vec) THEN accesses \cup {[fn |-> "parallel", vec |-> "x_vec", index |-> i]}
                     ELSE accesses
    /\ UNCHANGED <<inputs, i, z_i, buffers, tasks, results, cout, reads, written, ser>>

M2_AsyncF ==
    /\ prog = "main2" /\ pc = "asyncF"
    /\ Async("F", x_i)
    /\ pc' = "asyncG"
    /\ UNCHANGED <<inputs, round, buffers, calls, failed, results, cout, log, ser>>

M2_AsyncG ==
    /\ prog = "main2" /\ pc = "asyncG"
    /\ Async("G", F_buffer)
    /\ pc' = "asyncH"
    /\ ReadBuffer("F_buffer")
    /\ UNCHANGED <<inputs, round, buffers, calls, failed, results, cout, written, accesses, ser>>


\* Faulty variant: H is launched with the buffer of F instead of the buffer of G.
M2_AsyncH_WrongBuffer ==
    /\ prog = "main2" /\ pc = "asyncH"
    /\ Async("H", F_buffer)
    /\ pc' = "getF"
    /\ ReadBuffer("F_buffer")
    /\ UNCHANGED <<inputs, round, buffers, calls, failed, results, cout, written, accesses, ser>>

M2_AsyncH ==
    /\ prog = "main2" /\ pc = "asyncH"
    /\ Async("H", G_buffer)
    /\ pc' = "getF"
    /\ ReadBuffer("G_buffer")
    /\ UNCHANGED <<inputs, round, buffers, calls, failed, results, cout, written, accesses, ser>>

M2_GetF ==
    /\ prog = "main2" /\ pc = "getF"
    /\ \E o \in GetOutcomes("F") :
          /\ Got("F", o)
          /\ F_result' = IF o.ok THEN o.val ELSE F_result
          /\ pc' = IF o.ok THEN "getG" ELSE "throw"
    /\ UNCHANGED <<inputs, round, buffers, G_result, H_result, y, cout, log, ser>>


\* Faulty variant: a failed G is run again instead of letting the exception out.
M2_GetG_Retry ==
    /\ prog = "main2" /\ pc = "getG"
    /\ \E o \in GetOutcomes("G") :
          /\ fut' = [fut EXCEPT !["G"] = IF o.ok THEN NoFuture
                                         ELSE [@ EXCEPT !.state = "pending"]]
          /\ calls' = IF Deferred("G") THEN [calls EXCEPT !["G"] = @ + 1] ELSE calls
          /\ failed' = IF Deferred("G") /\ ~o.ok
                       THEN failed \cup {[stage |-> "G", round |-> fut["G"].round]}
                       ELSE failed
          /\ G_result' = IF o.ok THEN o.val ELSE G_result
          /\ pc' = IF o.ok THEN "getH" ELSE "getG"
    /\ UNCHANGED <<inputs, round, buffers, F_result, H_result, y, cout, log, ser>>

M2_GetG ==
    /\ prog = "main2" /\ pc = "getG"
    /\ \E o \in GetOutcomes("G") :
          /\ Got("G", o)
          /\ G_result' = IF o.ok THEN o.val ELSE G_result
          /\ pc' = IF o.ok THEN "getH" ELSE "throw"
    /\ UNCHANGED <<inputs, round, buffers, F_result, H_result, y, cout, log, ser>>


\* Faulty variant: the main thread takes the result of H only if it is
\* there and goes on without waiting otherwise.
M2_GetH_NoJoin ==
    /\ prog = "main2" /\ pc = "getH"
    /\ IF GetOutcomes("H") = {}
       THEN /\ pc' = "saveF"
            /\ UNCHANGED <<tasks, H_result>>
       ELSE \E o \in GetOutcomes("H") :
               /\ Got("H", o)
               /\ H_result' = IF o.ok THEN o.val ELSE H_result
               /\ pc' = IF o.ok THEN "saveF" ELSE "throw"
    /\ UNCHANGED <<inputs, round, buffers, F_result, G_result, y, cout, log, ser>>

M2_GetH ==
    /\ prog = "main2" /\ pc = "getH"
    /\ \E o \in GetOutcomes("H") :
          /\ Got("H", o)
          /\ H_result' = IF o.ok THEN o.val ELSE H_result
          /\ pc' = IF o.ok THEN "saveF" ELSE "throw"
    /\ UNCHANGED <<inputs, round, buffers, F_result, G_result, y, cout, log, ser>>


\* Faulty variant: F_buffer is assigned a second time in the round.
M2_SaveF_Twice ==
    /\ prog = "main2" /\ pc = "saveF"
    /\ F_buffer' = F_result
    /\ pc' = "saveG"
    /\ written' = [written EXCEPT !["F_buffer"] = Append(Append(@, F_result), F_result)]
    /\ UNCHANGED <<inputs, round, G_buffer, F_G_sum_buffer, tasks, results, cout, reads, accesses, ser>>

M2_SaveF ==
    /\ prog = "main2" /\ pc = "saveF"
    /\ F_buffer' = F_result
    /\ pc' = "saveG"
    /\ WriteBuffer("F_buffer", F_result)
    /\ UNCHANGED <<inputs, round, G_buffer, F_G_sum_buffer, tasks, results, cout, reads, accesses, ser>>


\* Faulty variant: the buffer of G is overwritten with the result of F.
M2_SaveG_WrongResult ==
    /\ prog = "main2" /\ pc = "saveG"
    /\ G_buffer' = F_result
    /\ pc' = "print"
    /\ WriteBuffer("G_buffer", F_result)
    /\ UNCHANGED <<inputs, round, F_buffer, F_G_sum_buffer, tasks, results, cout, reads, accesses, ser>>

M2_SaveG ==
    /\ prog = "main2" /\ pc = "saveG"
    /\ G_buffer' = G_result
    /\ pc' = "print"
    /\ WriteBuffer("G_buffer", G_result)
    /\ UNCHANGED <<inputs, round, F_buffer, F_G_sum_buffer, tasks, results, cout, reads, accesses, ser>>

\* The line of one step; main2 and main4 show H_result as the third column.
M2_Print ==
    /\ prog = "main2" /\ pc = "print"
    /\ cout' = Append(cout, [step |-> i, thread1 |-> F_result,
                             thread2 |-> G_result, last |-> H_result])
    /\ pc' = "incr"
    /\ UNCHANGED <<inputs, round, buffers, tasks, results, log, ser>>

M2_Incr ==
    /\ prog = "main2" /\ pc = "incr"
    /\ i' = i + 1
    /\ pc' = "for"
    /\ UNCHANGED <<inputs, x_i, z_i, buffers, tasks, results, cout, log, ser>>

M2_Next ==
    \/ M2_For \/ M2_Input \/ M2_AsyncF \/ M2_AsyncG \/ M2_AsyncH
    \/ M2_GetF \/ M2_GetG \/ M2_GetH \/ M2_SaveF \/ M2_SaveG
    \/ M2_Print \/ M2_Incr

(***************************************************************************)
(* main3.cpp: parallel()                                                   *)
(***************************************************************************)

\* Faulty variant: main3 loops with the bound of main2.
M3_For_ExtraRound ==
    /\ prog = "main3" /\ pc = "for"
    /\ pc' = IF i < Len(x_vec) + 2 THEN "x_i" ELSE "return"
    /\ UNCHANGED <<inputs, round, buffers, tasks, results, cout, log, ser>>

M3_For ==
    /\ prog = "main3" /\ pc = "for"
    /\ pc' = IF i < Len(x_vec) + 1 THEN "x_i" ELSE "return"
    /\ UNCHANGED <<inputs, round, buffers, tasks, results, cout, log, ser>>

M3_Input ==
    /\ prog = "main3" /\ pc = "x_i"
    /\ x_i' = IF i < Len(x_vec) THEN x_vec[i + 1] ELSE no_data
    /\ pc' = "asyncF"
    /\ accesses' = IF i < Len(x_vec) THEN accesses \cup {[fn |-> "parallel", vec |-> "x_vec", index |-> i]}
                     ELSE accesses
    /\ UNCHANGED <<inputs, i, z_i, buffers, tasks, results, cout, reads, written, ser>>

M3_AsyncF ==
    /\ prog = "main3" /\ pc = "asyncF"
    /\ Async("F", x_i)
    /\ pc' = "asyncG"
    /\ UNCHANGED <<inputs, round, buffers, calls, failed, results, cout, log, ser>>

M3_AsyncG ==
    /\ prog = "main3" /\ pc = "asyncG"
    /\ Async("G", F_buffer)
    /\ pc' = "getF"
    /\ ReadBuffer("F_buffer")
    /\ UNCHANGED <<inputs, round, buffers, calls, failed, results, cout, written, accesses, ser>>

M3_GetF ==
    /\ prog = "main3" /\ pc = "getF"
    /\ \E o \in GetOutcomes("F") :
          /\ Got("F", o)
          /\ F_result' = IF o.ok THEN o.val ELSE F_result
          /\ pc' = IF o.ok THEN "getG" ELSE "throw"
    /\ UNCHANGED <<inputs, round, buffers, G_result, H_result, y, cout, log, ser>>

M3_GetG ==
    /\ prog = "main3" /\ pc = "getG"
    /\ \E o \in GetOutcomes("G") :
          /\ Got("G", o)
          /\ G_result' = IF o.ok THEN o.val ELSE G_result
          /\ pc' = IF o.ok THEN "sum" ELSE "throw"
    /\ UNCHANGED <<inputs, round, buffers, F_result, H_result, y, cout, log, ser>>

\* The main thread sums the buffered F output with this round's G output.

\* Faulty variant: the sum is taken after F_buffer was overwritten with F_result.
M3_Sum_AfterSave ==
    /\ prog = "main3" /\ pc = "sum"
    /\ y' = sum(F_result, G_result)
    /\ pc' = "saveF"
    /\ UNCHANGED <<inputs, round, buffers, tasks, F_result, G_result, H_result, cout, log, ser>>

M3_Sum ==
    /\ prog = "main3" /\ pc = "sum"
    /\ y' = sum(F_buffer, G_result)
    /\ pc' = "saveF"
    /\ ReadBuffer("F_buffer")
    /\ UNCHANGED <<inputs, round, buffers, tasks, F_result, G_result, H_result, cout, written, accesses, ser>>

M3_SaveF ==
    /\ prog = "main3" /\ pc = "saveF"
    /\ F_buffer' = F_result
    /\ pc' = "print"
    /\ WriteBuffer("F_buffer", F_result)
    /\ UNCHANGED <<inputs, round, G_buffer, F_G_sum_buffer, tasks, results, cout, reads, accesses, ser>>

\* The third column of main3's line is the sum y of the main thread.
M3_Print ==
    /\ prog = "main3" /\ pc = "print"
    /\ cout' = Append(cout, [step |-> i, thread1 |-> F_result,
                             thread2 |-> G_result, last |-> y])
    /\ pc' = "incr"
    /\ UNCHANGED <<inputs, round, buffers, tasks, results, log, ser>>

M3_Incr ==
    /\ prog = "main3" /\ pc = "incr"
    /\ i' = i + 1
    /\ pc' = "for"
    /\ UNCHANGED <<inputs, x_i, z_i, buffers, tasks, results, cout, log, ser>>

M3_Next ==
    \/ M3_For \/ M3_Input \/ M3_AsyncF \/ M3_AsyncG \/ M3_GetF \/ M3_GetG
    \/ M3_Sum \/ M3_SaveF \/ M3_Print \/ M3_Incr

(***************************************************************************)
(* main4.cpp: serial()                                                     *)
(***************************************************************************)
S4_For ==
    /\ prog = "main4" /\ pc = "s_for"
    /\ pc' = IF ser.i < Len(x_vec) THEN "s_x_i" ELSE "s_return"
    /\ UNCHANGED <<inputs, round, buffers, tasks, results, cout, log, ser>>

S4_InputX ==
    /\ prog = "main4" /\ pc = "s_x_i"
    /\ \E o \in ElementAt(x_vec, ser.i) :
          /\ ser' = [ser EXCEPT !.x_i = IF o.ok THEN o.val ELSE @]
          /\ pc' = IF o.ok THEN "s_z_i" ELSE "s_crashed"
    /\ accesses' = accesses \cup {[fn |-> "serial", vec |-> "x_vec", index |-> ser.i]}
    /\ UNCHANGED <<inputs, round, buffers, tasks, results, cout, reads, written>>

S4_InputZ ==
    /\ prog = "main4" /\ pc = "s_z_i"
    /\ \E o \in ElementAt(z_vec, ser.i) :
          /\ ser' = [ser EXCEPT !.z_i = IF o.ok THEN o.val ELSE @]
          /\ pc' = IF o.ok THEN "s_y_i" ELSE "s_crashed"
    /\ accesses' = accesses \cup {[fn |-> "serial", vec |-> "z_vec", index |-> ser.i]}
    /\ UNCHANGED <<inputs, round, buffers, tasks, results, cout, reads, written>>

\* y_i = H(sum(F(x_i), G(z_i))), or one of the three calls throws and the
\* exception leaves serial() and main().
S4_Eval ==
    /\ prog = "main4" /\ pc = "s_y_i"
    /\ \E oF \in Call("F", ser.x_i), oG \in Call("G", ser.z_i) :
          \E oH \in Call("H", sum(oF.val, oG.val)) :
             IF oF.ok /\ oG.ok /\ oH.ok
             THEN ser' = [ser EXCEPT !.y_i = oH.val] /\ pc' = "s_print"
             ELSE ser' = ser /\ pc' = "s_terminated"
    /\ UNCHANGED <<inputs, round, buffers, tasks, results, cout, log>>

S4_Print ==
    /\ prog = "main4" /\ pc = "s_print"
    /\ ser' = [ser EXCEPT !.out = Append(@, [step |-> ser.i, thread1 |-> ser.y_i])]
    /\ pc' = "s_incr"
    /\ UNCHANGED <<inputs, round, buffers, tasks, results, cout, log>>

S4_Incr ==
    /\ prog = "main4" /\ pc = "s_incr"
    /\ ser' = [ser EXCEPT !.i = @ + 1]
    /\ pc' = "s_for"
    /\ UNCHANGED <<inputs, round, buffers, tasks, results, cout, log>>

S4_Next ==
    \/ S4_For \/ S4_InputX \/ S4_InputZ \/ S4_Eval \/ S4_Print \/ S4_Incr

(***************************************************************************)
(* main4.cpp: parallel()                                                   *)
(***************************************************************************)
M4_For ==
    /\ prog = "main4" /\ pc = "for"
    /\ pc' = IF i < Len(x_vec) + 1 THEN "x_i" ELSE "return"
    /\ UNCHANGED <<inputs, round, buffers, tasks, results, cout, log, ser>>

M4_InputX ==
    /\ prog = "main4" /\ pc = "x_i"
    /\ x_i' = IF i < Len(x_vec) THEN x_vec[i + 1] ELSE no_data
    /\ pc' = "z_i"
    /\ accesses' = IF i < Len(x_vec) THEN accesses \cup {[fn |-> "parallel", vec |-> "x_vec", index |-> i]}
                     ELSE accesses
    /\ UNCHANGED <<inputs, i, z_i, buffers, tasks, results, cout, reads, written, ser>>


\* Faulty variant: z_vec[i] is guarded with the length of x_vec.
M4_InputZ_WrongGuard ==
    /\ prog = "main4" /\ pc = "z_i"
    /\ IF i < Len(x_vec)
       THEN /\ \E o \in ElementAt(z_vec, i) :
                  /\ z_i' = IF o.ok THEN o.val ELSE z_i
                  /\ pc' = IF o.ok THEN "asyncF" ELSE "terminated"
            /\ accesses' = accesses \cup
                   {[fn |-> "parallel", vec |-> "z_vec", index |-> i]}
       ELSE /\ z_i' = no_data
            /\ pc' = "asyncF"
            /\ accesses' = accesses
    /\ UNCHANGED <<inputs, i, x_i, buffers, tasks, results, cout, reads, written, ser>>

M4_InputZ ==
    /\ prog = "main4" /\ pc = "z_i"
    /\ z_i' = IF i < Len(z_vec) THEN z_vec[i + 1] ELSE no_data
    /\ pc' = "asyncF"
    /\ accesses' = IF i < Len(z_vec) THEN accesses \cup {[fn |-> "parallel", vec |-> "z_vec", index |-> i]}
                     ELSE accesses
    /\ UNCHANGED <<inputs, i, x_i, buffers, tasks, results, cout, reads, written, ser>>

M4_AsyncF ==
    /\ prog = "main4" /\ pc = "asyncF"
    /\ Async("F", x_i)
    /\ pc' = "asyncG"
    /\ UNCHANGED <<inputs, round, buffers, calls, failed, results, cout, log, ser>>

M4_AsyncG ==
    /\ prog = "main4" /\ pc = "asyncG"
    /\ Async("G", z_i)
    /\ pc' = "asyncH"
    /\ UNCHANGED <<inputs, round, buffers, calls, failed, results, cout, log, ser>>


\* Faulty variant: H is given the sum of the result variables instead of
\* the buffer, which differs in round 0, where there are no results yet.
M4_AsyncH_FromResults ==
    /\ prog = "main4" /\ pc = "asyncH"
    /\ Async("H", sum(F_result, G_result))
    /\ pc' = "getF"
    /\ UNCHANGED <<inputs, round, buffers, calls, failed, results, cout, log, ser>>

M4_AsyncH ==
    /\ prog = "main4" /\ pc = "asyncH"
    /\ Async("H", F_G_sum_buffer)
    /\ pc' = "getF"
    /\ ReadBuffer("F_G_sum_buffer")
    /\ UNCHANGED <<inputs, round, buffers, calls, failed, results, cout, written, accesses, ser>>

M4_GetF ==
    /\ prog = "main4" /\ pc = "getF"
    /\ \E o \in GetOutcomes("F") :
          /\ Got("F", o)
          /\ F_result' = IF o.ok THEN o.val ELSE F_result
          /\ pc' = IF o.ok THEN "getG" ELSE "throw"
    /\ UNCHANGED <<inputs, round, buffers, G_result, H_result, y, cout, log, ser>>

M4_GetG ==
    /\ prog = "main4" /\ pc = "getG"
    /\ \E o \in GetOutcomes("G") :
          /\ Got("G", o)
          /\ G_result' = IF o.ok THEN o.val ELSE G_result
          /\ pc' = IF o.ok THEN "getH" ELSE "throw"
    /\ UNCHANGED <<inputs, round, buffers, F_result, H_result, y, cout, log, ser>>


\* Faulty variant: the exception of H is swallowed and the round goes on.
M4_GetH_Swallow ==
    /\ prog = "main4" /\ pc = "getH"
    /\ \E o \in GetOutcomes("H") :
          /\ Got("H", o)
          /\ H_result' = IF o.ok THEN o.val ELSE H_result
          /\ pc' = "saveSum"
    /\ UNCHANGED <<inputs, round, buffers, F_result, G_result, y, cout, log, ser>>

M4_GetH ==
    /\ prog = "main4" /\ pc = "getH"
    /\ \E o \in GetOutcomes("H") :
          /\ Got("H", o)
          /\ H_result' = IF o.ok THEN o.val ELSE H_result
          /\ pc' = IF o.ok THEN "saveSum" ELSE "throw"
    /\ UNCHANGED <<inputs, round, buffers, F_result, G_result, y, cout, log, ser>>


\* Faulty variant: the sum pairs this round's F result with the previous round's
\* G input, as if G_result were taken before the join.
M4_SaveSum_StaleG ==
    /\ prog = "main4" /\ pc = "saveSum"
    /\ F_G_sum_buffer' = sum(F_result, G(IF i = 0 THEN no_data
                                          ELSE IF i - 1 < Len(z_vec) THEN z_vec[i]
                                          ELSE no_data))
    /\ pc' = "print"
    /\ WriteBuffer("F_G_sum_buffer", F_G_sum_buffer')
    /\ UNCHANGED <<inputs, round, F_buffer, G_buffer, tasks, results, cout, reads, accesses, ser>>

M4_SaveSum ==
    /\ prog = "main4" /\ pc = "saveSum"
    /\ F_G_sum_buffer' = sum(F_result, G_result)
    /\ pc' = "print"
    /\ WriteBuffer("F_G_sum_buffer", F_G_sum_buffer')
    /\ UNCHANGED <<inputs, round, F_buffer, G_buffer, tasks, results, cout, reads, accesses, ser>>

M4_Print ==
    /\ prog = "main4" /\ pc = "print"
    /\ cout' = Append(cout, [step |-> i, thread1 |-> F_result,
                             thread2 |-> G_result, last |-> H_result])
    /\ pc' = "incr"
    /\ UNCHANGED <<inputs, round, buffers, tasks, results, log, ser>>


\* Faulty variant: the loop counter is not advanced.
M4_Incr_Stuck ==
    /\ prog = "main4" /\ pc = "incr"
    /\ i' = i
    /\ pc' = "for"
    /\ UNCHANGED <<inputs, x_i, z_i, buffers, tasks, results, cout, log, ser>>

M4_Incr ==
    /\ prog = "main4" /\ pc = "incr"
    /\ i' = i + 1
    /\ pc' = "for"
    /\ UNCHANGED <<inputs, x_i, z_i, buffers, tasks, results, cout, log, ser>>

M4_Next ==
    \/ M4_For \/ M4_InputX \/ M4_InputZ \/ M4_AsyncF \/ M4_AsyncG \/ M4_AsyncH
    \/ M4_GetF \/ M4_GetG \/ M4_GetH \/ M4_SaveSum \/ M4_Print \/ M4_Incr

(***************************************************************************)
(* An exception leaving parallel(): main() has no handler.                 *)
(***************************************************************************)
\* The stack is unwound: the destructor of a future returned by std::async
\* waits for its thread; a deferred task that was never asked for is dropped.
Unwind ==
    /\ pc = "throw"
    /\ \A s \in Stages : ~Running(s)
    /\ fut' = [s \in Stages |-> NoFuture]
    /\ pc' = "terminated"
    /\ UNCHANGED <<inputs, round, buffers, calls, failed, results, cout, log, ser>>

\* Whether the stack is unwound before std::terminate is implementation-
\* defined when no handler is found: the process may end with tasks running.
Terminate ==
    /\ pc = "throw"
    /\ pc' = "terminated"
    /\ UNCHANGED <<inputs, round, buffers, tasks, results, cout, log, ser>>

(***************************************************************************)
(* The system: one call of parallel(), or of serial() of main4, on any     *)
(* argument vectors of up to MaxLen elements.                              *)
(***************************************************************************)
Init ==
    /\ prog \in {"main2", "main3", "main4"}
    /\ x_vec \in SeqsUpTo(XStrings, MaxLen)
    /\ z_vec \in IF prog = "main4" THEN SeqsUpTo(ZStrings, MaxLen) ELSE {<<>>}
    /\ pc \in IF prog = "main4" THEN {"for", "s_for"} ELSE {"for"}
    /\ i = 0
    /\ x_i = "" /\ z_i = ""
    /\ F_buffer = no_data /\ G_buffer = no_data /\ F_G_sum_buffer = no_data
    /\ fut = [s \in Stages |-> NoFuture]
    /\ F_result = "" /\ G_result = "" /\ H_result = "" /\ y = ""
    /\ cout = <<>>
    /\ calls = [s \in Stages |-> 0]
    /\ failed = {}
    /\ reads = [b \in Buffers |-> 0]
    /\ written = [b \in Buffers |-> <<>>]
    /\ accesses = {}
    /\ ser = NoSerial

Next ==
    \/ M2_Next
    \/ M3_Next
    \/ S4_Next
    \/ M4_Next
    \/ \E s \in Stages : TaskRun(s)
    \/ Unwind
    \/ Terminate

Spec == Init /\ [][Next]_vars

(***************************************************************************)
(* Notions the properties below are stated with.                           *)
(***************************************************************************)
N == Len(x_vec)

\* The number of rounds between reading x[k] and printing its final value.
Latency == IF prog = "main2" THEN 2 ELSE 1

\* The main thread is between the joins of a round and the end of the round.
Joined == pc \in {"sum", "saveF", "saveG", "saveSum", "print", "incr"}

\* The lines printed for the rounds that read real input, i.e. steps >= Latency.
Emitted == {k \in DOMAIN cout : cout[k].step >= Latency}

(***************************************************************************)
(* C1: main2, 3-stage chain.  For every input vector and every index k,    *)
(* the H result parallel() obtains in round k+2 is H(G(F(x[k]))), the      *)
(* value serial() computes for k, in every interleaving of the tasks.      *)
(***************************************************************************)
C1_ChainEqualsSerial ==
    prog = "main2" =>
        /\ \A k \in DOMAIN cout :
              cout[k].step >= 2 => cout[k].last = serial2(x_vec)[cout[k].step - 1]
        /\ (pc \in {"saveF", "saveG", "print"} /\ i >= 2) =>
              H_result = serial2(x_vec)[i - 1]

C1_Witness ==
    /\ prog = "main2" /\ N = 3 /\ x_vec[2] # x_vec[3]
    /\ Len(cout) = 5
    /\ cout[5].last = H(G(F(x_vec[3])))

(***************************************************************************)
(* C2: main4, diamond.  For input vectors x and z of equal length and      *)
(* every index k, the H result parallel() obtains in round k+1 is          *)
(* H(sum(F(x[k]), G(z[k]))), the value serial() computes for k: the        *)
(* buffered sum pairs the F and the G result of the same round.            *)
(***************************************************************************)
C2_DiamondEqualsSerial ==
    (prog = "main4" /\ Len(x_vec) = Len(z_vec)) =>
        /\ \A k \in DOMAIN cout :
              cout[k].step >= 1 => cout[k].last = serial4(x_vec, z_vec)[cout[k].step]
        /\ (pc \in {"saveSum", "print"} /\ i >= 1) =>
              H_result = serial4(x_vec, z_vec)[i]

C2_Witness ==
    /\ prog = "main4" /\ N = 3 /\ Len(z_vec) = 3
    /\ x_vec[2] # x_vec[3] /\ z_vec[2] # z_vec[3] /\ x_vec[3] # z_vec[3]
    /\ Len(cout) = 4
    /\ cout[4].last = H(sum(F(x_vec[3]), G(z_vec[3])))

(***************************************************************************)
(* C3: main3, two stages and a join.  For every input vector and every     *)
(* index k, the value y of round k+1 is sum(F(x[k]), G(F(x[k]))), the      *)
(* value serial() computes for k: F_buffer is read for the sum before the  *)
(* round's F result overwrites it.                                         *)
(***************************************************************************)
C3_JoinEqualsSerial ==
    prog = "main3" =>
        /\ \A k \in DOMAIN cout :
              cout[k].step >= 1 => cout[k].last = serial3(x_vec)[cout[k].step]
        /\ (pc \in {"saveF", "print"} /\ i >= 1) => y = serial3(x_vec)[i]

C3_Witness ==
    /\ prog = "main3" /\ N = 3 /\ x_vec[2] # x_vec[3]
    /\ pc = "print" /\ i = 3
    /\ F_buffer = F(no_data)
    /\ y = sum(F(x_vec[3]), G(F(x_vec[3])))

(***************************************************************************)
(* C4: parallel() runs exactly N + Latency rounds when it returns, also    *)
(* for N = 0, and no round with an index >= N + Latency is ever started:   *)
(* no input is read and no task is launched for such a round.              *)
(***************************************************************************)
C4_RoundCount ==
    /\ i <= N + Latency
    /\ (pc \notin {"for", "return"}) => i < N + Latency
    /\ \A s \in Stages : fut[s].state # "none" => fut[s].round < N + Latency
    /\ \A k \in DOMAIN cout : cout[k].step < N + Latency
    /\ pc = "return" => (i = N + Latency /\ Len(cout) = N + Latency)

C4_Witness ==
    /\ pc = "return"
    /\ \/ prog = "main2" /\ N = 0 /\ Len(cout) = 2
       \/ prog = "main3" /\ N = 2 /\ Len(cout) = 3

\* The external input of round r (0-based): the element, or no_data beyond the end.
XIn(r) == IF r < Len(x_vec) THEN x_vec[r + 1] ELSE no_data

ZIn(r) == IF r < Len(z_vec) THEN z_vec[r + 1] ELSE no_data

\* The final value of the pipeline expression evaluated on the inputs of round r.
FinalOf(r) ==
    CASE prog = "main2" -> H(G(F(XIn(r))))
      [] prog = "main3" -> sum(F(XIn(r)), G(F(XIn(r))))
      [] prog = "main4" -> H(sum(F(XIn(r)), G(ZIn(r))))

\* The final value of round r < Latency, computed from no_data alone.
FillOf(r) ==
    CASE prog = "main2" -> IF r = 0 THEN H(no_data) ELSE H(G(no_data))
      [] prog = "main3" -> sum(no_data, G(no_data))
      [] prog = "main4" -> H(no_data)

(***************************************************************************)
(* C5: as claimed, no final-stage output of the first Latency rounds is    *)
(* emitted: parallel() prints no line for a step below Latency.            *)
(***************************************************************************)
C5_FillRoundsDiscarded ==
    \A k \in DOMAIN cout : cout[k].step >= Latency

(***************************************************************************)
(* C5, amended: parallel() prints the final-stage output of every round,   *)
(* the first Latency rounds included; those outputs are computed from      *)
(* no_data alone, and the output printed in a round r >= Latency is        *)
(* computed from the input element of index r - Latency.                   *)
(***************************************************************************)
C5_FillRoundsPrinted ==
    /\ \A r \in 0..(Latency - 1) :
          i > r => (Len(cout) > r /\ cout[r + 1].step = r)
    /\ \A k \in DOMAIN cout :
          IF cout[k].step < Latency
          THEN cout[k].last = FillOf(cout[k].step)
          ELSE /\ cout[k].step - Latency < N
               /\ cout[k].last = FinalOf(cout[k].step - Latency)

C5_Witness ==
    /\ prog = "main2" /\ N = 1 /\ x_vec[1] = "x_0"
    /\ Len(cout) = 3
    /\ cout[1].last = "H(--)" /\ cout[2].last = "H(G(--))"
    /\ cout[3].last = "H(G(F(x_0)))"

(***************************************************************************)
(* C6: the results are emitted in strictly increasing index order, each    *)
(* index once: the line of round r is the (r+1)-th line printed, and the   *)
(* result for index k is in the line of round k + Latency.                 *)
(***************************************************************************)
C6_EmissionOrder ==
    /\ \A k \in DOMAIN cout : cout[k].step = k - 1
    /\ \A j, k \in Emitted :
          j < k => cout[j].step - Latency < cout[k].step - Latency
    /\ \A k \in 0..(N - 1) :
          Len(cout) > k + Latency => cout[k + Latency + 1].last = FinalOf(k)
    /\ Len(cout) = IF pc = "incr" THEN i + 1 ELSE i

C6_Witness ==
    /\ prog = "main4" /\ N = 3 /\ Len(z_vec) = 3 /\ pc = "return"
    /\ x_vec[1] # x_vec[2]
    /\ [k \in 1..4 |-> cout[k].step] = <<0, 1, 2, 3>>
    /\ cout[2].last = FinalOf(0) /\ cout[3].last = FinalOf(1)

Min(a, b) == IF a < b THEN a ELSE b

(***************************************************************************)
(* C7: as claimed, for main4 and inputs of any two lengths the number of   *)
(* results for real input indices is the length of the shorter input.      *)
(***************************************************************************)
C7_ShortestInputLength ==
    (prog = "main4" /\ pc = "return") =>
        Cardinality(Emitted) = Min(Len(x_vec), Len(z_vec))

FBufferAt(r) == IF r = 0 THEN no_data ELSE F(XIn(r - 1))

ExpectedLine(r) ==
    [step    |-> r,
     thread1 |-> F(XIn(r)),
     thread2 |-> IF prog = "main4" THEN G(ZIn(r)) ELSE G(FBufferAt(r)),
     last    |-> IF r < Latency THEN FillOf(r) ELSE FinalOf(r - Latency)]

(***************************************************************************)
(* C8: the output of parallel() is deterministic.  Every printed line and  *)
(* every stage result obtained at the join of a round is a function of     *)
(* the program, its input vectors and the round number alone, whatever     *)
(* the launch policies and the order in which the tasks of the round       *)
(* start, run and complete; so two runs on the same inputs agree.          *)
(***************************************************************************)
C8_Deterministic ==
    /\ cout = [k \in 1..Len(cout) |-> ExpectedLine(k - 1)]
    /\ Joined =>
          /\ F_result = ExpectedLine(i).thread1
          /\ G_result = ExpectedLine(i).thread2
          /\ prog # "main3" => H_result = ExpectedLine(i).last
    /\ (prog = "main3" /\ pc \in {"saveF", "print", "incr"}) =>
          y = ExpectedLine(i).last

\* H has completed before F and G have run, F is left to run at the join,
\* and a round has already been printed.
C8_Witness ==
    /\ prog = "main2" /\ N = 2 /\ i = 2 /\ Len(cout) = 2
    /\ pc = "getF"
    /\ Deferred("F") /\ Running("G") /\ fut["H"].state = "value"
    /\ fut["H"].val = ExpectedLine(2).last

(***************************************************************************)
(* C9: fail-fast.  Once a stage function has failed in round r, that       *)
(* stage is not called again, no buffer is written, the round counter      *)
(* stays at r and no task of a later round is launched.                    *)
(***************************************************************************)
C9_FailFast ==
    [][failed # {} =>
          /\ \A f \in failed : calls'[f.stage] = calls[f.stage]
          /\ buffers' = buffers
          /\ i' = i
          /\ \A s \in Stages :
                (fut'[s].state = "pending" /\ fut[s].state # "pending") =>
                    \A f \in failed : fut'[s].round = f.round]_vars

C9_Witness ==
    /\ prog = "main2" /\ N = 2 /\ pc = "terminated"
    /\ failed = {[stage |-> "G", round |-> 1]}
    /\ i = 1 /\ F_buffer = F(x_vec[1]) /\ G_buffer = G(no_data)
    /\ calls = [s \in Stages |-> 2]

Aborted == pc \in {"throw", "terminated"}

(***************************************************************************)
(* C10: as claimed, a run aborted by a failing stage function leaves no    *)
(* partial output: nothing of an earlier round has been emitted.           *)
(***************************************************************************)
C10_NoPartialOutput ==
    Aborted => cout = <<>>

(***************************************************************************)
(* C10, amended: the failure of a stage function in round r surfaces at    *)
(* the join of round r as an exception leaving parallel(); the lines of    *)
(* the rounds 0..r-1 have been printed and stay, no line is printed for    *)
(* round r.                                                                *)
(***************************************************************************)
C10_ErrorSurfacesAfterPartialOutput ==
    /\ Aborted =>
          /\ failed # {}
          /\ Len(cout) = i
          /\ \A k \in DOMAIN cout : cout[k].step < i
    /\ (failed # {} /\ ~Aborted) =>
          /\ pc \in {"asyncG", "asyncH", "getF", "getG", "getH"}
          /\ \A f \in failed : f.round = i /\ fut[f.stage].state = "exception"

C10_Witness ==
    /\ prog = "main4" /\ N = 3 /\ pc = "terminated"
    /\ failed = {[stage |-> "H", round |-> 2]}
    /\ Len(cout) = 2 /\ cout[2].last = FinalOf(0)

\* The stages and the buffers a program has.
StagesOf == IF prog = "main3" THEN {"F", "G"} ELSE Stages

BuffersOf ==
    CASE prog = "main2" -> {"F_buffer", "G_buffer"}
      [] prog = "main3" -> {"F_buffer"}
      [] prog = "main4" -> {"F_G_sum_buffer"}

\* This step launches a task of stage s.
Launches(s) == fut'[s].state = "pending" /\ fut[s] # fut'[s]

(***************************************************************************)
(* C11: rounds are separated by a barrier.  A task of a round is launched  *)
(* only when every task of the round before has completed and the main     *)
(* thread has written that round's outputs to the buffers; so the tasks    *)
(* in flight always belong to the current round, at most one per stage.    *)
(***************************************************************************)
C11_Barrier ==
    /\ [](\A s \in Stages : fut[s].state # "none" => fut[s].round = i)
    /\ [][\A s \in Stages : Launches(s) =>
             /\ fut[s].state = "none"
             /\ fut'[s].round = i
             /\ \A t \in Stages : fut[t].state # "none" => fut[t].round = i
             /\ \A t \in StagesOf : calls[t] >= i
             /\ calls[s] = i
             /\ \A b \in BuffersOf : Len(written[b]) = i]_vars

\* F of round 2 has completed before G of round 2 is launched.
C11_Witness ==
    /\ prog = "main2" /\ N = 3 /\ i = 2 /\ pc = "asyncG"
    /\ fut["F"].state = "value" /\ fut["F"].round = 2
    /\ calls = [s \in Stages |-> IF s = "F" THEN 3 ELSE 2]
    /\ Len(written["F_buffer"]) = 2 /\ Len(written["G_buffer"]) = 2

\* The stages with a buffered (lagged) input, and the buffer each reads.
LaggedStages ==
    CASE prog = "main2" -> {"G", "H"}
      [] prog = "main3" -> {"G"}
      [] prog = "main4" -> {"H"}

SourceOf(s) ==
    CASE prog = "main4" -> "F_G_sum_buffer"
      [] s = "G" -> "F_buffer"
      [] s = "H" -> "G_buffer"

\* The value buffer b holds during round r: the write of round r-1, or the
\* initial no_data.
HeldIn(b, r) == IF r = 0 THEN no_data ELSE written[b][r]

ResultOf(s) == IF s = "G" THEN G_result ELSE H_result

ValueOf(b) ==
    CASE b = "F_buffer" -> F_buffer
      [] b = "G_buffer" -> G_buffer
      [] b = "F_G_sum_buffer" -> F_G_sum_buffer

(***************************************************************************)
(* C12: the buffered input of a stage task of round r is the value written *)
(* to its buffer at the end of round r-1, or no_data when r = 0; the task  *)
(* works on a copy, so its result is that of the value held during round   *)
(* r also after the buffer was overwritten at the end of round r.          *)
(***************************************************************************)
C12_Snapshot ==
    /\ \A s \in LaggedStages :
          fut[s].state # "none" =>
              /\ fut[s].arg = HeldIn(SourceOf(s), fut[s].round)
              /\ fut[s].state = "value" =>
                    fut[s].val = Apply(s, HeldIn(SourceOf(s), fut[s].round))
    /\ pc \in {"for", "x_i", "z_i", "asyncF", "asyncG", "asyncH"} =>
          \A b \in BuffersOf : ValueOf(b) = HeldIn(b, i)
    /\ Joined =>
          \A s \in LaggedStages : ResultOf(s) = Apply(s, HeldIn(SourceOf(s), i))

\* Round 1 of main2 after its buffer writes: G_result is G of the old
\* F_buffer, which the write has replaced with a different value.
C12_Witness ==
    /\ prog = "main2" /\ N = 2 /\ x_vec[1] # x_vec[2]
    /\ pc = "print" /\ i = 1
    /\ Len(written["F_buffer"]) = 2
    /\ F_buffer = F(x_vec[2]) /\ F_buffer # HeldIn("F_buffer", 1)
    /\ G_result = G(F(x_vec[1]))

\* How often a round reads a buffer: main3 reads F_buffer for the launch of
\* G and again for the sum of the main thread.
ReadsPerRound == IF prog = "main3" THEN 2 ELSE 1

(***************************************************************************)
(* C13: as claimed, a completed round has written every buffer exactly     *)
(* once and read it exactly once.                                          *)
(***************************************************************************)
C13_OneWriteOneRead ==
    pc = "incr" =>
        \A b \in BuffersOf : Len(written[b]) = i + 1 /\ reads[b] = i + 1

(***************************************************************************)
(* C13, amended: in every completed round every buffer is written exactly  *)
(* once, after all stage tasks of the round have completed, and is read    *)
(* only before that write: exactly once in main2 and main4, and exactly    *)
(* twice in main3 (for the launch of G and for the sum of the main         *)
(* thread).                                                                *)
(***************************************************************************)
C13_OneWriteReadsBefore ==
    \A b \in BuffersOf :
        /\ Len(written[b]) \in {i, i + 1}
        /\ pc \in {"for", "return"} =>
              (Len(written[b]) = i /\ reads[b] = ReadsPerRound * i)
        /\ pc = "incr" =>
              (Len(written[b]) = i + 1 /\ reads[b] = ReadsPerRound * (i + 1))
        /\ reads[b] <= ReadsPerRound * (i + 1)
        /\ Len(written[b]) = i + 1 =>
              /\ reads[b] = ReadsPerRound * (i + 1)
              /\ \A s \in Stages : fut[s].state = "none"
              /\ \A s \in StagesOf : calls[s] = i + 1
              /\ ValueOf(b) = written[b][i + 1]

C13_Witness ==
    /\ prog = "main3" /\ N = 2 /\ pc = "incr" /\ i = 1
    /\ reads["F_buffer"] = 4
    /\ written["F_buffer"] = <<F(x_vec[1]), F(x_vec[2])>>

\* The main thread is past the reading of the round's external inputs.
InputTaken == pc \in {"asyncF", "asyncG", "asyncH", "getF", "getG", "getH",
                      "sum", "saveF", "saveG", "saveSum", "print", "incr"}

MainStep == M2_Next \/ M3_Next \/ M4_Next

FairSpec ==
    /\ Spec
    /\ WF_vars(MainStep)
    /\ \A s \in Stages : WF_vars(TaskRun(s))

\* parallel() has returned after printing the result of every input index.
AllEmitted ==
    /\ pc = "return"
    /\ i = N + Latency
    /\ Len(cout) = N + Latency
    /\ \A k \in 0..(N - 1) : cout[k + Latency + 1].last = FinalOf(k)

(***************************************************************************)
(* C15: under this fairness parallel() terminates for every input: the     *)
(* main thread blocked in a get() is released, and unless a stage function *)
(* throws every round 0..N+L-1 is completed, the result of every input     *)
(* index is printed and parallel() returns.                                *)
(***************************************************************************)
C15_Terminates ==
    /\ (pc \in {"getF", "getG", "getH"}) ~> (Joined \/ pc = "throw")
    /\ (pc = "for") => <>(failed # {} \/ AllEmitted)

C15_Witness ==
    /\ AllEmitted /\ N = 3 /\ prog = "main2"
    /\ failed = {} /\ calls = [s \in Stages |-> 5]

\* A task has been launched and its result has not been taken yet.
InFlight == \E s \in Stages : fut[s].state # "none"

(***************************************************************************)
(* C16: a step of a stage task changes nothing of the pipeline state: not  *)
(* a buffer, the round counter, the inputs, the main thread's variables    *)
(* or the output.  While tasks of a round are in flight no buffer, round   *)
(* counter or input vector changes; a buffer is written only by a step of  *)
(* the main thread at its save statements, after the joins of the round.   *)
(***************************************************************************)
C16_Frame ==
    /\ [][(\E s \in Stages : TaskRun(s)) =>
             UNCHANGED <<inputs, pc, round, buffers, results, cout, reads, written>>]_vars
    /\ [][InFlight => UNCHANGED <<inputs, i, buffers, written>>]_vars
    /\ [][(buffers' # buffers \/ written' # written) =>
             /\ MainStep
             /\ pc \in {"saveF", "saveG", "saveSum"}
             /\ ~InFlight
             /\ \A s \in StagesOf : calls[s] = i + 1]_vars

\* All three tasks of round 1 of main2 have run and none has been joined:
\* the buffers still hold what round 0 wrote.
C16_Witness ==
    /\ prog = "main2" /\ N = 2 /\ i = 1 /\ pc = "getF"
    /\ \A s \in Stages : fut[s].state = "value" /\ fut[s].policy = "async"
    /\ F_buffer = F(x_vec[1]) /\ G_buffer = G(no_data)
    /\ written["F_buffer"] = <<F(x_vec[1])>>
    /\ fut["F"].val = F(x_vec[2])

(***************************************************************************)
(* C17: main2.  After round r is completed F_buffer = F(in(r)) and         *)
(* G_buffer = G(b(r-1)), with in(k) = x[k] for k < N and no_data beyond,   *)
(* b(k) = F(in(k)) and b(-1) = no_data.  So when parallel() returns the    *)
(* buffers hold F(no_data) and G(F(no_data)), written in the last round    *)
(* and read by no task.                                                    *)
(***************************************************************************)
C17_BufferContents ==
    prog = "main2" =>
        /\ pc \in {"print", "incr"} =>
              /\ F_buffer = F(XIn(i))
              /\ G_buffer = G(FBufferAt(i))
        /\ (i >= 1 /\ pc \in {"for", "x_i", "asyncF", "asyncG", "asyncH",
                              "getF", "getG", "getH", "return", "throw"}) =>
              /\ F_buffer = F(XIn(i - 1))
              /\ G_buffer = G(FBufferAt(i - 1))
        /\ pc = "return" =>
              /\ F_buffer = F(no_data)
              /\ G_buffer = G(F(no_data))
              /\ \A b \in BuffersOf :
                    /\ Len(written[b]) = N + 2
                    /\ reads[b] = N + 2
                    /\ ValueOf(b) = written[b][N + 2]
              /\ \A s \in Stages : fut[s].state = "none"

C17_Witness ==
    /\ prog = "main2" /\ pc = "return" /\ x_vec = <<"--", "x_0">>
    /\ F_buffer = "F(--)" /\ G_buffer = "G(F(--))"
    /\ written["G_buffer"] = <<"G(--)", "G(F(--))", "G(F(x_0))", "G(F(--))">>
    /\ cout[4].last = "H(G(F(x_0)))"

VecOf(a) == IF a.vec = "x_vec" THEN x_vec ELSE z_vec

(***************************************************************************)
(* C18: as claimed, in main4 every element access x_vec[i] and z_vec[i]    *)
(* made by serial() and by parallel() is within the bounds of the accessed *)
(* vector, for inputs of any two lengths, and serial() never leaves the    *)
(* defined behaviour that parallel() has on the same input.                *)
(***************************************************************************)
C18_AllAccessesInBounds ==
    prog = "main4" =>
        /\ \A a \in accesses : a.index < Len(VecOf(a))
        /\ pc # "s_crashed"

====
